---- MODULE Spec2Model ----
(***************************************************************************)
(* The Settings Store of the Music Player and Spotify add-ons             *)
(* (core/config.py, spotify_anki/config.py) and the custom-URL handlers   *)
(* of the Music Player settings dialog that drive it.                     *)
(*                                                                         *)
(* Python objects are modelled with their identity where the code shares  *)
(* them: a list lives in a heap cell and a dict entry holds a reference   *)
(* to the cell, so that dict.copy() (a shallow copy) shares the lists of  *)
(* the dict it copies.  The file holds JSON text: lists by content, never *)
(* references.                                                             *)
(***************************************************************************)
EXTENDS Integers, Sequences, FiniteSets, TLC

\* ------------------------------------------------------------------ bounds
\* longest custom_urls list the model lets the dialog build or a file hold
MaxUrls == 2

\* ------------------------------------------------------------------ values
\* A Python / JSON value.  One record shape for all of them.
Str(x)  == [t |-> "str",  s |-> x,  n |-> 0, l |-> <<>>]
Num(x)  == [t |-> "int",  s |-> "", n |-> x, l |-> <<>>]
None    == [t |-> "none", s |-> "", n |-> 0, l |-> <<>>]
Bool(b) == [t |-> "bool", s |-> "", n |-> IF b THEN 1 ELSE 0, l |-> <<>>]
\* a reference to the list object in heap cell a (in memory only)
Ref(a)  == [t |-> "ref",  s |-> a,  n |-> 0, l |-> <<>>]
\* a list by content: a JSON array in the file, or a list literal
List(q) == [t |-> "list", s |-> "", n |-> 0, l |-> q]
\* a Python object json cannot serialize (a set, a QKeySequence, ...)
Obj     == [t |-> "object", s |-> "", n |-> 0, l |-> <<>>]

\* heap cells: the list literal of DEFAULTS, the list self.settings owns,
\* the list a load() result owns
Addr == {"d", "s", "l"}

\* str.startswith for strings kept as sequences of characters
startswith(str, prefix) ==
    /\ Len(str) >= Len(prefix)
    /\ SubSeq(str, 1, Len(prefix)) = prefix

HttpPrefix  == <<"h", "t", "t", "p", ":", "/", "/">>
HttpsPrefix == <<"h", "t", "t", "p", "s", ":", "/", "/">>

\* the custom URL entries the user types in the model
Soundcloud == [name |-> "Soundcloud", url |-> HttpsPrefix \o <<"s", "c">>]
Radio      == [name |-> "Radio",      url |-> HttpPrefix \o <<"r">>]

\* ------------------------------------------------------------------ dicts
\* `return settings`: the file's dict without the merge
Merge_file_only(a, b) == b

\* {**b, **a}: the operands swapped
Merge_defaults_win(a, b) ==
    [k \in DOMAIN a \cup DOMAIN b |-> IF k \in DOMAIN a THEN a[k] ELSE b[k]]

\* A dict is a function from its keys.  {**a, **b}
Merge(a, b) ==
    [k \in DOMAIN a \cup DOMAIN b |-> IF k \in DOMAIN b THEN b[k] ELSE a[k]]

EmptyDict == [k \in {} |-> None]

\* dict.get(key, default)
DictGet(d, key, default) == IF key \in DOMAIN d THEN d[key] ELSE default

\* d[key] = value
DictSet(d, key, value) ==
    [k \in DOMAIN d \cup {key} |-> IF k = key THEN value ELSE d[k]]

\* Config.DEFAULTS as the class body defines it; the [] of custom_urls is
\* one list object, heap cell "d"
DEFAULTS_music ==
    [shortcut_play_pause  |-> Str("Ctrl+Shift+R"),
     shortcut_next        |-> Str("Ctrl+Shift+Right"),
     shortcut_previous    |-> Str("Ctrl+Shift+Left"),
     shortcut_toggle      |-> Str("Ctrl+Shift+M"),
     shortcut_volume_up   |-> Str("Ctrl+Shift+Up"),
     shortcut_volume_down |-> Str("Ctrl+Shift+Down"),
     default_service      |-> Str("youtube_music"),
     widget_width         |-> Num(700),
     widget_height        |-> Num(550),
     custom_urls          |-> Ref("d")]

DEFAULTS_spotify ==
    [shortcut_play_pause |-> Str("Space"),
     shortcut_next       |-> Str("Shift+Right"),
     shortcut_previous   |-> Str("Shift+Left"),
     default_service     |-> Str("spotify"),
     widget_width        |-> Num(450),
     widget_height       |-> Num(600)]

\* Config.DEFAULTS of the store the gui dialog of spotify_anki imports
\* (spotify_anki/core/config.py): the keys that dialog reads and writes,
\* with the values it falls back to
DEFAULTS_spotify_gui ==
    [shortcut_play_pause |-> Str("Space"),
     shortcut_next       |-> Str("Shift+Right"),
     shortcut_previous   |-> Str("Shift+Left"),
     shortcut_toggle     |-> Str("Ctrl+Shift+M"),
     default_service     |-> Str("youtube_music")]

DefaultsOf(v) ==
    IF v = "music" THEN DEFAULTS_music
    ELSE IF v = "spotify_gui" THEN DEFAULTS_spotify_gui
    ELSE DEFAULTS_spotify

\* the value a dict entry stands for: a reference read through the heap
Deref(v, h) == IF v.t = "ref" THEN List(h[v.s]) ELSE v

\* a dict by value (what == compares, what json.dump writes)
View(d, h) == [k \in DOMAIN d |-> Deref(d[k], h)]

\* the Defaults Table by value, as the class body defines it
DefaultsTable(v) == View(DefaultsOf(v), [a \in Addr |-> <<>>])

VARIABLES
    variant,      \* which add-on: "music", "spotify" or "spotify_gui"
    DEFAULTS,     \* the dict Config.DEFAULTS
    settings,     \* the dict self.settings
    settings_is_DEFAULTS, \* self.settings is Config.DEFAULTS (same object)
    heap,         \* the list objects
    file,         \* config.json
    op,           \* the operation that ran last
    ret,          \* what it returned
    raised,       \* an exception escaped it
    loaded,       \* the dict a direct load() call returned
    save_result,  \* outcome of the save the operation made, if any
    notice,       \* the message box the handler showed last
    dialog,       \* the SettingsDialog window: "closed", "open"
    opened_with,  \* the sitting at the dialog: the values it was opened with
    running,      \* SpotifyHTTPServer.running
    controller,   \* SpotifyServerHandler.controller and its sp client
    playback,     \* what Spotify reports as the current playback
    response,     \* the HTTP response written last
    store_calls,  \* the Config methods the last HTTP request called
    calls,        \* the calls of toggle_playback in progress, per caller
    server_thread, \* the threads start() started: how many, how many serve
    spotify,      \* SpotifyController: spotipy, config, config_file, sp
    project,      \* the files build.py works on
    music_widget, \* the module-level music_widget: 0 is None
    live,         \* the MusicWidget instances that exist
    visible,      \* the instances whose isVisible() is True
    mw_state,     \* mw.state
    playing,      \* the embedded page is playing
    track,        \* the place of the page in its queue
    issued        \* the playback commands the last callback gave to widgets

store_vars  == <<variant, DEFAULTS, settings, settings_is_DEFAULTS, heap, file>>
server_vars ==
    <<running, controller, playback, response, store_calls, calls,
      server_thread, spotify>>
widget_vars ==
    <<music_widget, live, visible, mw_state, playing, track, issued>>

vars == <<variant, DEFAULTS, settings, settings_is_DEFAULTS, heap, file,
          op, ret, raised, loaded, save_result, notice, dialog,
          opened_with,
          running, controller, playback, response, store_calls, calls,
          server_thread, spotify, project,
          music_widget, live, visible, mw_state, playing, track, issued>>

\* ------------------------------------------------------------------ file
\* config.json: absent, a JSON object, other valid JSON, or text that is
\* not JSON (garbage or a truncated write).  by: who wrote it last.
Absent       == [kind |-> "absent",  obj |-> EmptyDict, by |-> "nobody"]
JsonObject(o, who) == [kind |-> "object", obj |-> o, by |-> who]
NotJson(who) == [kind |-> "invalid", obj |-> EmptyDict, by |-> who]
NonObject(k) == [kind |-> k, obj |-> EmptyDict, by |-> "user"]

NonObjectKinds == {"array", "string", "number", "null"}

\* files found at start-up: written by an earlier version or by hand
InitObjects ==
    { EmptyDict,
      [default_service |-> Str("youtube")],
      [default_service |-> Str("youtube"), custom_urls |-> List(<<>>)],
      [legacy_key |-> Str("old"), custom_urls |-> List(<<Soundcloud>>)] }

InitFiles ==
    {Absent, NotJson("user")}
      \cup {NonObject(k) : k \in NonObjectKinds}
      \cup {JsonObject(o, "user") : o \in InitObjects}

\* ------------------------------------------------------------------ json
\* json.load: the dict of a JSON object; every array becomes a new list
\* object, placed in cell a
json_load_dict(obj, a) ==
    [k \in DOMAIN obj |-> IF obj[k].t = "list" THEN Ref(a) ELSE obj[k]]

\* the content of the list object json.load creates
json_load_list(obj) ==
    IF \E k \in DOMAIN obj : obj[k].t = "list"
    THEN obj[CHOOSE k \in DOMAIN obj : obj[k].t = "list"].l
    ELSE <<>>

\* json.dump(..., default=str): numbers written as strings
json_dump_str(d, h) ==
    [exc |-> "none",
     obj |-> [k \in DOMAIN d |->
                IF d[k].t = "int" THEN Str(ToString(d[k].n))
                ELSE Deref(d[k], h)]]

\* json.dump: the JSON object of a dict (lists by content), or TypeError at
\* the first value it cannot serialize
json_dump(d, h) ==
    [exc |-> IF \E k \in DOMAIN d : d[k].t = "object" THEN "TypeError"
             ELSE "none",
     obj |-> View(d, h)]

\* `except (OSError, json.JSONDecodeError)`
except_OSError == {"OSError", "JSONDecodeError"}

\* the exceptions `except Exception` catches: every one that can arise here
except_Exception == {"OSError", "JSONDecodeError", "TypeError"}

\* ------------------------------------------------------------- Config.load
\* D: Config.DEFAULTS, f: the file.  readable: open(..., 'r') succeeds.
\* a: the cell for the list json.load creates.  The result: the exception
\* that escapes, the dict returned, whether that dict is the DEFAULTS
\* object itself, and the content of the new list.
load_try(f, readable) ==
    IF ~readable THEN "OSError"
    ELSE IF f.kind = "invalid" THEN "JSONDecodeError"
    ELSE IF f.kind # "object" THEN "TypeError"   \* {**d, **non-mapping}
    ELSE "none"

\* `return self.DEFAULTS`: the dict itself
copy_alias(d) == [dict |-> d, is_same |-> TRUE]

\* dict.copy(): a new dict object with the same entries; the values are
\* not copied, so a list entry refers to the same list object
copy(d) == [dict |-> d, is_same |-> FALSE]

load(D, f, readable, a) ==
    LET exists == f.kind # "absent"
        exc    == IF exists THEN load_try(f, readable) ELSE "none"
    IN  IF exists /\ exc = "none"
        THEN [exc |-> "none",
              dict |-> Merge(D, json_load_dict(f.obj, a)),
              is_DEFAULTS |-> FALSE,
              list |-> json_load_list(f.obj)]
        ELSE IF exists /\ exc \notin except_Exception
        THEN [exc |-> exc, dict |-> EmptyDict, is_DEFAULTS |-> FALSE,
              list |-> <<>>]
        ELSE [exc |-> "none",
              dict |-> copy(D).dict,
              is_DEFAULTS |-> copy(D).is_same,
              list |-> <<>>]

\* ------------------------------------------------------------- Config.save
\* io: "ok", "open_fails" (open(..., 'w') raises: nothing is written) or
\* "write_fails" (a write raises after the file was truncated).
\* the failure of open() swallowed: the body is skipped, no exception
save_try_open_unchecked(d, h, f, io) ==
    IF io = "open_fails" THEN [exc |-> "none", file |-> f]
    ELSE IF json_dump(d, h).exc # "none"
    THEN [exc |-> json_dump(d, h).exc, file |-> NotJson("store")]
    ELSE IF io = "write_fails"
    THEN [exc |-> "OSError", file |-> NotJson("store")]
    ELSE [exc |-> "none", file |-> JsonObject(json_dump(d, h).obj, "store")]

save_try(d, h, f, io) ==
    IF io = "open_fails" THEN [exc |-> "OSError", file |-> f]
    ELSE IF json_dump(d, h).exc # "none"
    THEN [exc |-> json_dump(d, h).exc, file |-> NotJson("store")]
    ELSE IF io = "write_fails"
    THEN [exc |-> "OSError", file |-> NotJson("store")]
    ELSE [exc |-> "none", file |-> JsonObject(json_dump(d, h).obj, "store")]

\* `return True` after the try statement instead of inside it
save_returns_True(d, h, f, io) ==
    [exc |-> "none", ret |-> TRUE, file |-> save_try(d, h, f, io).file]

save(d, h, f, io) ==
    LET r == save_try(d, h, f, io)
    IN  IF r.exc = "none"
        THEN [exc |-> "none", ret |-> TRUE, file |-> r.file]
        ELSE IF r.exc \in except_Exception
        THEN [exc |-> "none", ret |-> FALSE, file |-> r.file]
        ELSE [exc |-> r.exc, ret |-> FALSE, file |-> r.file]

SaveOutcomes == {"ok", "open_fails", "write_fails"}

SaveResult(r) == IF r.ret THEN "ok" ELSE "fail"

\* ------------------------------------------------------------------ heap
NoLoad == [some |-> FALSE, dict |-> EmptyDict, is_DEFAULTS |-> FALSE]

Holds(d, a) == \E k \in DOMAIN d : d[k] = Ref(a)

\* a list object nothing refers to is freed
Collect(h, s, ld) ==
    [a \in Addr |->
        IF a = "s" /\ ~Holds(s, "s") THEN <<>>
        ELSE IF a = "l" /\ ~Holds(ld, "l") THEN <<>>
        ELSE h[a]]

EmptyHeap == [a \in Addr |-> <<>>]

\* ------------------------------------------------------------------ Init
\* no sitting at the dialog
NoSession == [mem |-> EmptyDict, disk |-> EmptyDict, changed |-> FALSE]

\* the state after `config = Config()` at import: __init__ has loaded
StoreInit(variants, files) ==
    /\ variant \in variants
    /\ file \in files
    /\ DEFAULTS = DefaultsOf(variant)
    /\ \E readable \in BOOLEAN :
         LET r == load(DefaultsOf(variant), file, readable, "s")
         IN  /\ settings = r.dict
             /\ settings_is_DEFAULTS = r.is_DEFAULTS
             /\ heap = [EmptyHeap EXCEPT !["s"] = r.list]
             /\ raised = (r.exc # "none")
    /\ op = "init"
    /\ ret = None
    /\ loaded = NoLoad
    /\ save_result = "none"
    /\ notice = "none"

\* no request was answered yet
\* the credentials SpotifyController keeps: config, the file
\* spotify_config.json and the client self.sp with what it was built from
Credentials(id, secret, uri) ==
    [client_id |-> id, client_secret |-> secret, redirect_uri |-> uri]

\* the default config of _load_config
DefaultConfig == Credentials("", "", "http://localhost:8888/callback")

NoFile   == [kind |-> "absent", obj |-> DefaultConfig]
NoClient == [held |-> FALSE, from |-> DefaultConfig]

\* no SpotifyController constructed yet
NoController ==
    [spotipy |-> TRUE, config |-> DefaultConfig, config_file |-> NoFile,
     sp |-> NoClient]

NoResponse ==
    [status |-> 0, type |-> "none", path |-> "", body |-> EmptyDict]

\* SpotifyHTTPServer.__init__ and the class attribute
\* SpotifyServerHandler.controller = None: the server is not started
ServerInit ==
    /\ running = FALSE
    /\ controller = "absent"
    /\ playback = "none"
    /\ response = NoResponse
    /\ store_calls = {}
    /\ calls = <<>>
    /\ server_thread = [started |-> 0, alive |-> 0]
    /\ spotify = NoController

\* build.py not run: no project directory looked at
NoProject ==
    [src_dir |-> FALSE, module_dir |-> FALSE, files |-> {},
     build_dir |-> FALSE, package |-> [exists |-> FALSE, entries |-> <<>>]]

\* the module-level `music_widget = None` of the add-on's __init__.py
WidgetInit ==
    /\ music_widget = 0
    /\ live = {}
    /\ visible = {}
    /\ mw_state = "deckBrowser"
    /\ track = 0
    /\ issued = <<>>
    /\ playing = FALSE

\* the settings store with the settings dialog on screen
Init ==
    /\ StoreInit({"music", "spotify"}, InitFiles)
    /\ dialog = "open"
    /\ opened_with = NoSession
    /\ ServerInit
    /\ WidgetInit
    /\ project = NoProject

\* Config.__init__ when the add-on is loaded again (Anki restarts): the
\* class body runs again, so DEFAULTS is the literal again
Config_init(readable) ==
    LET r == load(DefaultsOf(variant), file, readable, "s")
    IN  /\ DEFAULTS' = DefaultsOf(variant)
        /\ settings' = r.dict
        /\ settings_is_DEFAULTS' = r.is_DEFAULTS
        /\ heap' = [EmptyHeap EXCEPT !["s"] = r.list]
        /\ raised' = (r.exc # "none")
        /\ op' = "init"
        /\ ret' = None
        /\ loaded' = NoLoad
        /\ save_result' = "none"
        /\ notice' = "none"
        /\ UNCHANGED <<dialog, opened_with, server_vars, widget_vars, project>>
        /\ UNCHANGED <<variant, file>>

\* a direct call of config.load(): the result is returned, not stored in
\* self.settings
Load(readable) ==
    LET r == load(DEFAULTS, file, readable, "l")
        ld == [some |-> r.exc = "none", dict |-> r.dict,
               is_DEFAULTS |-> r.is_DEFAULTS]
    IN  /\ loaded' = ld
        /\ heap' = Collect([heap EXCEPT !["l"] = r.list], settings, ld.dict)
        /\ raised' = (r.exc # "none")
        /\ op' = "load"
        /\ ret' = None
        /\ save_result' = "none"
        /\ notice' = "none"
        /\ UNCHANGED <<dialog, opened_with, server_vars, widget_vars, project>>
        /\ UNCHANGED <<variant, DEFAULTS, settings, settings_is_DEFAULTS, file>>

\* config.save()
Save(io) ==
    LET r == save(settings, heap, file, io)
    IN  /\ file' = r.file
        /\ ret' = IF r.exc = "none" THEN Bool(r.ret) ELSE None
        /\ raised' = (r.exc # "none")
        /\ save_result' = SaveResult(r)
        /\ op' = "save"
        /\ loaded' = NoLoad
        /\ heap' = Collect(heap, settings, EmptyDict)
        /\ notice' = "none"
        /\ UNCHANGED <<dialog, opened_with, server_vars, widget_vars, project>>
        /\ UNCHANGED <<variant, DEFAULTS, settings, settings_is_DEFAULTS>>

\* self.settings.get(key): the fallback dropped
get_no_default(d, key, default) == DictGet(d, key, None)

\* config.get(key, default)
get(d, key, default) == DictGet(d, key, default)

GetKeys     == {"default_service", "legacy_key"}
GetDefaults == {None, Str("Space")}

Get(key, default) ==
    /\ ret' = get(settings, key, default)
    /\ op' = "get"
    /\ raised' = FALSE
    /\ loaded' = NoLoad
    /\ save_result' = "none"
    /\ notice' = "none"
    /\ heap' = Collect(heap, settings, EmptyDict)
    /\ UNCHANGED <<dialog, opened_with, server_vars, widget_vars, project>>
    /\ UNCHANGED <<variant, DEFAULTS, settings, settings_is_DEFAULTS, file>>

\* config.set(key, value): self.settings[key] = value
set(d, key, value) == DictSet(d, key, value)

SetCalls ==
    { <<"default_service", Str("youtube")>>,
      <<"legacy_key", Obj>> }

Set(key, value) ==
    /\ settings' = set(settings, key, value)
    /\ DEFAULTS' = IF settings_is_DEFAULTS THEN settings' ELSE DEFAULTS
    /\ heap' = Collect(heap, settings', EmptyDict)
    /\ op' = "set"
    /\ ret' = None
    /\ raised' = FALSE
    /\ loaded' = NoLoad
    /\ save_result' = "none"
    /\ notice' = "none"
    /\ UNCHANGED <<dialog, opened_with, server_vars, widget_vars, project>>
    /\ UNCHANGED <<variant, settings_is_DEFAULTS, file>>

\* config.reset_to_defaults(): self.settings = self.DEFAULTS.copy(), then
\* self.save(), whose result is dropped
reset_to_defaults(D) == copy(D)

ResetToDefaults(io) ==
    LET s == reset_to_defaults(DEFAULTS).dict
        r == save(s, heap, file, io)
    IN  /\ settings' = s
        /\ settings_is_DEFAULTS' = reset_to_defaults(DEFAULTS).is_same
        /\ file' = r.file
        /\ save_result' = SaveResult(r)
        /\ raised' = (r.exc # "none")
        /\ heap' = Collect(heap, s, EmptyDict)
        /\ op' = "reset"
        /\ ret' = None
        /\ loaded' = NoLoad
        /\ notice' = "none"
        /\ UNCHANGED <<dialog, opened_with, server_vars, widget_vars, project>>
        /\ UNCHANGED <<variant, DEFAULTS>>

\* ------------------------------------------- SettingsDialog (Music Player)
\* what the user can type into the two QInputDialog prompts
Prompts ==
    { <<"", Soundcloud.url>>,
      <<"Soundcloud", <<>> >>,
      <<"Soundcloud", <<"f", "t", "p", ":", "/", "/", "x">> >>,
      <<Soundcloud.name, Soundcloud.url>>,
      <<Radio.name, Radio.url>> }

\* OK or Cancel at the name prompt and at the URL prompt
Answers == {<<TRUE, TRUE>>, <<FALSE, TRUE>>, <<TRUE, FALSE>>}

\* the URL check left out
valid_url_any(url) == TRUE

\* the URL check of _add_custom_url
valid_url(url) == startswith(url, HttpPrefix) \/ startswith(url, HttpsPrefix)

\* list.append / list.pop(i) on the list object in cell a
append(h, a, x) == [h EXCEPT ![a] = Append(@, x)]

\* a pop that takes the first entry whatever the row
pop_first(h, a, i) == [h EXCEPT ![a] = Tail(@)]

pop(h, a, i) ==
    [h EXCEPT ![a] = SubSeq(@, 1, i) \o SubSeq(@, i + 2, Len(@))]

\* the list object config.get('custom_urls', []) gives: the one the record
\* holds, or a new empty list
custom_urls_cell(d) ==
    IF "custom_urls" \in DOMAIN d /\ d["custom_urls"].t = "ref"
    THEN d["custom_urls"].s ELSE "s"

custom_urls_is_list(d) ==
    "custom_urls" \notin DOMAIN d \/ d["custom_urls"].t = "ref"

Quiet(n) ==
    /\ notice' = n
    /\ op' = "dialog_rejected"
    /\ ret' = None
    /\ raised' = FALSE
    /\ loaded' = NoLoad
    /\ save_result' = "none"
    /\ heap' = Collect(heap, settings, EmptyDict)
    /\ UNCHANGED <<dialog, opened_with, server_vars, widget_vars, project>>
    /\ UNCHANGED <<variant, DEFAULTS, settings, settings_is_DEFAULTS, file>>

\* SettingsDialog._add_custom_url: name, ok and url, ok2 are the answers to
\* the two prompts
AddCustomUrl(name, ok, url, ok2, io) ==
    /\ variant = "music"
    /\ IF ~ok \/ name = "" THEN Quiet("none")
       ELSE IF ~ok2 \/ url = <<>> THEN Quiet("none")
       ELSE IF ~valid_url(url) THEN Quiet("warning")
       ELSE IF ~custom_urls_is_list(settings)
       THEN \* .append on a value that is no list: AttributeError
            /\ raised' = TRUE
            /\ op' = "add_url"
            /\ ret' = None
            /\ notice' = "none"
            /\ loaded' = NoLoad
            /\ save_result' = "none"
            /\ heap' = Collect(heap, settings, EmptyDict)
            /\ UNCHANGED <<dialog, opened_with, server_vars, widget_vars, project>>
            /\ UNCHANGED <<variant, DEFAULTS, settings, settings_is_DEFAULTS,
                           file>>
       ELSE LET a  == custom_urls_cell(settings)
                h0 == IF "custom_urls" \in DOMAIN settings THEN heap
                      ELSE [heap EXCEPT !["s"] = <<>>]
                h1 == append(h0, a, [name |-> name, url |-> url])
                s1 == set(settings, "custom_urls", Ref(a))
                r  == save(s1, h1, file, io)
            IN  /\ Len(heap[a]) < MaxUrls
                /\ settings' = s1
                /\ DEFAULTS' = IF settings_is_DEFAULTS THEN s1 ELSE DEFAULTS
                /\ heap' = Collect(h1, s1, EmptyDict)
                /\ file' = r.file
                /\ save_result' = SaveResult(r)
                /\ raised' = (r.exc # "none")
                /\ notice' = "information"
                /\ op' = "add_url"
                /\ ret' = None
                /\ loaded' = NoLoad
                /\ UNCHANGED <<dialog, opened_with, server_vars, widget_vars, project>>
                /\ UNCHANGED <<variant, settings_is_DEFAULTS>>

\* the rows url_list can have selected: -1 is no selection.  The list
\* widget shows one row per entry of custom_urls.
Rows(d, h) ==
    -1 .. (IF custom_urls_is_list(d) /\ "custom_urls" \in DOMAIN d
           THEN Len(h[custom_urls_cell(d)]) - 1 ELSE -1)

\* SettingsDialog._remove_custom_url: current_row is the selected row,
\* reply the answer to the confirmation question
RemoveCustomUrl(current_row, reply, io) ==
    /\ variant = "music"
    /\ current_row \in Rows(settings, heap)
    /\ IF current_row < 0 THEN Quiet("warning")
       ELSE IF reply # "Yes" THEN Quiet("critical")
       ELSE LET a  == custom_urls_cell(settings)
                h1 == pop(heap, a, current_row)
                s1 == set(settings, "custom_urls", Ref(a))
                r  == save(s1, h1, file, io)
            IN  IF current_row < Len(heap[a])
                THEN /\ settings' = s1
                     /\ DEFAULTS' = IF settings_is_DEFAULTS THEN s1
                                    ELSE DEFAULTS
                     /\ heap' = Collect(h1, s1, EmptyDict)
                     /\ file' = r.file
                     /\ save_result' = SaveResult(r)
                     /\ raised' = (r.exc # "none")
                     /\ notice' = "information"
                     /\ op' = "remove_url"
                     /\ ret' = None
                     /\ loaded' = NoLoad
                     /\ UNCHANGED <<dialog, opened_with>>
                     /\ UNCHANGED <<server_vars, widget_vars, project>>
                     /\ UNCHANGED <<variant, settings_is_DEFAULTS>>
                ELSE Quiet("none")

\* ------------------------------------------------ SettingsDialog: OK, reset
\* the QKeySequenceEdit fields of the form, in the order the handler reads
\* them, as the settings keys they are stored under
ShortcutKeys(v) ==
    IF v = "music"
    THEN <<"shortcut_play_pause", "shortcut_next", "shortcut_previous",
           "shortcut_toggle", "shortcut_volume_up", "shortcut_volume_down">>
    ELSE IF v = "spotify_gui"
    THEN <<"shortcut_play_pause", "shortcut_next", "shortcut_previous",
           "shortcut_toggle">>
    ELSE <<"shortcut_play_pause", "shortcut_next", "shortcut_previous">>

\* the items of service_combo
Services(v) ==
    IF v = "spotify" THEN {"spotify", "youtube"}
    ELSE {"youtube_music", "youtube"}

\* what keySequence().toString() can give for the fields at the click: the
\* defaults, the last field changed, a field cleared, two fields equal
Forms(v) ==
    LET keys == ShortcutKeys(v)
        n    == Len(keys)
        base == [i \in 1..n |-> DefaultsOf(v)[keys[i]].s]
    IN  { base,
          [base EXCEPT ![n] = "Ctrl+M"],
          [base EXCEPT ![1] = ""],
          [base EXCEPT ![n] = ""],
          [base EXCEPT ![n] = base[1]] }

\* the check for empty fields left out
all_set_unchecked(shortcuts) == TRUE

\* all([...]): no field is the empty string
all_set(shortcuts) == \A i \in DOMAIN shortcuts : shortcuts[i] # ""

\* the uniqueness check left out
no_duplicates_unchecked(shortcuts) == TRUE

\* len(shortcuts) == len(set(shortcuts))
no_duplicates(shortcuts) ==
    Len(shortcuts) = Cardinality({shortcuts[i] : i \in DOMAIN shortcuts})

\* the config.set calls of the handler, one per field and one for the
\* selected service
RECURSIVE set_shortcuts(_, _, _, _)
set_shortcuts(d, keys, shortcuts, i) ==
    IF i > Len(keys) THEN d
    ELSE set_shortcuts(set(d, keys[i], Str(shortcuts[i])), keys, shortcuts,
                       i + 1)

\* what the handler does when config.save() returned False: the Spotify
\* dialogs show "Save Failed", the Music Player dialog has no else branch
save_failed_notice(v) == IF v = "music" THEN "none" ELSE "critical"

\* the shortcut and service values of the record d, which _load_settings
\* puts into the form
form_values(d) ==
    LET keys == ShortcutKeys(variant)
    IN  [k \in {keys[i] : i \in DOMAIN keys} \cup {"default_service"} |-> d[k]]

\* the values the store holds and the values config.json gives
session ==
    [mem     |-> form_values(settings),
     disk    |-> form_values(load(DEFAULTS, file, TRUE, "l").dict),
     changed |-> FALSE]

\* tools menu: SettingsDialog(mw).exec(); recorded says whether the values
\* the dialog was opened with are kept for the sitting
exec(recorded) ==
    /\ dialog = "closed"
    /\ dialog' = "open"
    /\ opened_with' = IF recorded THEN session ELSE NoSession
    /\ op' = "open_dialog"
    /\ notice' = "none"
    /\ ret' = None
    /\ raised' = FALSE
    /\ loaded' = NoLoad
    /\ save_result' = "none"
    /\ heap' = Collect(heap, settings, EmptyDict)
    /\ UNCHANGED <<server_vars, widget_vars, project>>
    /\ UNCHANGED <<variant, DEFAULTS, settings, settings_is_DEFAULTS, file>>

OpenDialog == exec(FALSE)

\* the OK button: _save_and_close / save_and_close
OkClick(shortcuts, service, io) ==
    /\ dialog = "open"
    /\ op' = "ok_click"
    /\ ret' = None
    /\ loaded' = NoLoad
    /\ UNCHANGED <<server_vars, widget_vars, project>>
    /\ IF ~all_set(shortcuts) \/ ~no_duplicates(shortcuts)
       THEN /\ notice' = "warning"
            /\ raised' = FALSE
            /\ save_result' = "none"
            /\ heap' = Collect(heap, settings, EmptyDict)
            /\ UNCHANGED <<dialog, opened_with, variant, DEFAULTS, settings,
                           settings_is_DEFAULTS, file>>
       ELSE LET s1 == set(set_shortcuts(settings, ShortcutKeys(variant),
                                        shortcuts, 1),
                          "default_service", Str(service))
                r  == save(s1, heap, file, io)
            IN  /\ settings' = s1
                /\ DEFAULTS' = IF settings_is_DEFAULTS THEN s1 ELSE DEFAULTS
                /\ heap' = Collect(heap, s1, EmptyDict)
                /\ file' = r.file
                /\ save_result' = SaveResult(r)
                /\ raised' = (r.exc # "none")
                /\ notice' = IF r.ret THEN "information"
                             ELSE save_failed_notice(variant)
                /\ dialog' = IF r.ret THEN "closed" ELSE "open"
                /\ opened_with' = IF r.ret \/ opened_with = NoSession
                                  THEN NoSession
                                  ELSE [opened_with EXCEPT !.changed = TRUE]
                /\ UNCHANGED <<variant, settings_is_DEFAULTS>>

\* the answer that lets the reset go on
confirmed_any(reply) == TRUE

\* reply == QMessageBox.StandardButton.Yes
confirmed(reply) == reply = "Yes"

\* the Reset button: _reset_to_defaults / reset_to_defaults of the dialog
ResetClick(reply, io) ==
    /\ dialog = "open"
    /\ op' = "reset_click"
    /\ ret' = None
    /\ loaded' = NoLoad
    /\ UNCHANGED <<dialog, server_vars, widget_vars, project>>
    /\ opened_with' = IF confirmed(reply) /\ opened_with # NoSession
                      THEN [opened_with EXCEPT !.changed = TRUE]
                      ELSE opened_with
    /\ IF confirmed(reply)
       THEN LET s == reset_to_defaults(DEFAULTS).dict
                r == save(s, heap, file, io)
            IN  /\ settings' = s
                /\ settings_is_DEFAULTS' = reset_to_defaults(DEFAULTS).is_same
                /\ file' = r.file
                /\ save_result' = SaveResult(r)
                /\ raised' = (r.exc # "none")
                /\ heap' = Collect(heap, s, EmptyDict)
                /\ notice' = "information"
                /\ UNCHANGED <<variant, DEFAULTS>>
       ELSE /\ notice' = "none"
            /\ raised' = FALSE
            /\ save_result' = "none"
            /\ heap' = Collect(heap, settings, EmptyDict)
            /\ UNCHANGED <<variant, DEFAULTS, settings, settings_is_DEFAULTS,
                           file>>

\* the clicks of one sitting at the dialog; the outcome of the save is
\* drawn only where the handler reaches the save
OkInputs ==
    { i \in { <<f, sv, io>> : f \in Forms(variant), sv \in Services(variant),
                              io \in SaveOutcomes } :
        (all_set(i[1]) /\ no_duplicates(i[1])) \/ i[3] = "ok" }

ResetInputs ==
    { i \in {"Yes", "No"} \X SaveOutcomes : confirmed(i[1]) \/ i[2] = "ok" }

\* the rejected signal wired to the handler of the OK button
Cancel_accepts == \E i \in OkInputs : OkClick(i[1], i[2], i[3])

\* the Cancel button: self.reject
Cancel ==
    /\ dialog = "open"
    /\ dialog' = "closed"
    /\ opened_with' = NoSession
    /\ op' = "cancel"
    /\ notice' = "none"
    /\ ret' = None
    /\ raised' = FALSE
    /\ loaded' = NoLoad
    /\ save_result' = "none"
    /\ heap' = Collect(heap, settings, EmptyDict)
    /\ UNCHANGED <<server_vars, widget_vars, project>>
    /\ UNCHANGED <<variant, DEFAULTS, settings, settings_is_DEFAULTS, file>>

\* the user's inputs to the two handlers; the outcome of the save is
\* drawn only where the handler reaches the save
AddInputs ==
    { i \in { <<p[1], ok[1], p[2], ok[2], io>> :
                p \in Prompts, ok \in Answers, io \in SaveOutcomes } :
        \/ i[2] /\ i[1] # "" /\ i[4] /\ i[3] # <<>> /\ valid_url(i[3])
        \/ i[5] = "ok" }

RemoveInputs ==
    { i \in (-1 .. MaxUrls - 1) \X {"Yes", "No"} \X SaveOutcomes :
        (i[1] >= 0 /\ i[2] = "Yes") \/ i[3] = "ok" }

Next ==
    \/ \E readable \in BOOLEAN : Config_init(readable)
    \/ \E readable \in BOOLEAN : Load(readable)
    \/ \E io \in SaveOutcomes : Save(io)
    \/ \E key \in GetKeys, default \in GetDefaults : Get(key, default)
    \/ \E c \in SetCalls : Set(c[1], c[2])
    \/ \E io \in SaveOutcomes : ResetToDefaults(io)
    \/ \E i \in AddInputs : AddCustomUrl(i[1], i[2], i[3], i[4], i[5])
    \/ \E i \in RemoveInputs : RemoveCustomUrl(i[1], i[2], i[3])

Spec == Init /\ [][Next]_vars

\* the answers to the prompts of _add_custom_url in that sitting
DialogAddInputs ==
    { i \in AddInputs : i[3] # Radio.url }

\* the files that sitting starts from
DialogFiles ==
    { Absent,
      JsonObject([legacy_key |-> Str("old"),
                  custom_urls |-> List(<<Radio>>)], "user") }

\* the store as the add-on loaded it, the dialog not yet opened
DialogInit ==
    /\ StoreInit({"music", "spotify", "spotify_gui"}, DialogFiles)
    /\ dialog = "closed"
    /\ opened_with = NoSession
    /\ ServerInit
    /\ WidgetInit
    /\ project = NoProject

\* the settings dialog of the three add-ons over the store
DialogNext ==
    \/ OpenDialog
    \/ Cancel
    \/ \E i \in OkInputs : OkClick(i[1], i[2], i[3])
    \/ \E i \in ResetInputs : ResetClick(i[1], i[2])
    \/ \E i \in DialogAddInputs :
         dialog = "open" /\ AddCustomUrl(i[1], i[2], i[3], i[4], i[5])
    \/ \E i \in RemoveInputs :
         dialog = "open" /\ RemoveCustomUrl(i[1], i[2], i[3])

DialogSpec == DialogInit /\ [][DialogNext]_vars

\* one add-on's dialog opened again and again, each sitting keeping the
\* values it was opened with
SessionInit ==
    /\ StoreInit({"music", "spotify_gui"}, {Absent})
    /\ dialog = "closed"
    /\ opened_with = NoSession
    /\ ServerInit
    /\ WidgetInit
    /\ project = NoProject

SessionNext ==
    \/ exec(TRUE)
    \/ Cancel
    \/ \E i \in OkInputs : OkClick(i[1], i[2], i[3])
    \/ \E i \in ResetInputs : ResetClick(i[1], i[2])
    \/ \E i \in DialogAddInputs :
         dialog = "open" /\ AddCustomUrl(i[1], i[2], i[3], i[4], i[5])
    \/ \E i \in RemoveInputs :
         dialog = "open" /\ RemoveCustomUrl(i[1], i[2], i[3])

SessionSpec == SessionInit /\ [][SessionNext]_vars

\* ------------------------------------------------------ SpotifyController
\* controller: "absent" (SpotifyServerHandler.controller is None),
\* "unconfigured" (self.sp is None), "configured" (self.sp is a client).
\* playback: what sp.current_playback() returns: "none" (None), "no_item"
\* (a playback without item), "playing", "paused".  api: whether the call
\* to the Spotify API returns ("ok") or raises ("raises").
Controllers == {"absent", "unconfigured", "configured"}
Playbacks   == {"none", "no_item", "playing", "paused"}
Api         == {"ok", "raises"}

is_configured(c) == c = "configured"

get_current_playback(c, p, api) ==
    IF c # "configured" THEN "none"
    ELSE IF api = "raises" THEN "none"
    ELSE p

\* playback and playback.get('is_playing', False): None when there is no
\* playback
is_playing(c, p, api) ==
    LET pb == get_current_playback(c, p, api)
    IN  IF pb = "none" THEN None ELSE Bool(pb = "playing")

\* play, pause, next_track, previous_track: False without client or when
\* the API call raises
play_unguarded(c, api) == api = "ok"
play(c, api)           == c = "configured" /\ api = "ok"
pause(c, api)          == c = "configured" /\ api = "ok"
next_track(c, api)     == c = "configured" /\ api = "ok"
previous_track(c, api) == c = "configured" /\ api = "ok"

\* the result of is_playing() returned instead of that of pause()/play()
toggle_playback_is_playing(c, p, api, api2) == is_playing(c, p, api)

\* api: the call of is_playing, api2: the call of pause or play
toggle_playback(c, p, api, api2) ==
    IF is_playing(c, p, api) = Bool(TRUE) THEN Bool(pause(c, api2))
    ELSE Bool(play(c, api2))

\* the playback after a command that the API accepted
after_command(path, c, p, api, api2) ==
    LET on == p \in {"playing", "paused"}
    IN  IF path = "/play" /\ play(c, api) /\ on THEN "playing"
        ELSE IF path = "/pause" /\ pause(c, api) /\ on THEN "paused"
        ELSE IF path = "/toggle" /\ on /\ c = "configured" /\ api2 = "ok"
        THEN (IF is_playing(c, p, api) = Bool(TRUE) THEN "paused"
              ELSE "playing")
        ELSE p

\* the methods of the spotipy client a playback operation calls, in order;
\* api is the outcome of current_playback() in toggle_playback
api_calls(path, c, p, api) ==
    IF c # "configured" THEN <<>>
    ELSE IF path = "/play" THEN <<"start_playback">>
    ELSE IF path = "/pause" THEN <<"pause_playback">>
    ELSE IF path = "/next" THEN <<"next_track">>
    ELSE IF path = "/previous" THEN <<"previous_track">>
    ELSE IF is_playing(c, p, api) = Bool(TRUE)
    THEN <<"current_playback", "pause_playback">>
    ELSE <<"current_playback", "start_playback">>

\* the dict of get_current_track_info, EmptyDict standing for None
get_current_track_info(c, p, api) ==
    LET pb == get_current_playback(c, p, api)
    IN  IF pb \in {"none", "no_item"} THEN EmptyDict
        ELSE [name        |-> Str("Song"),
              artist      |-> Str("Artist"),
              album       |-> Str("Album"),
              is_playing  |-> Bool(pb = "playing"),
              progress_ms |-> Num(0),
              duration_ms |-> Num(1)]

\* ---------------------------------------------------- SpotifyServerHandler
PostPaths == {"/play", "/pause", "/toggle", "/next", "/previous"}
GetPaths  == {"/status", "/current", "/callback"}

\* a handler's answer: the response it writes and the Config methods it
\* called on the way
Json(path, body) ==
    [response |-> [status |-> 200, type |-> "application/json",
                   path |-> path, body |-> body],
     calls |-> {}]

message(path, result) ==
    IF path = "/play" THEN (IF result THEN "Playing" ELSE "Failed to play")
    ELSE IF path = "/pause"
    THEN (IF result THEN "Paused" ELSE "Failed to pause")
    ELSE IF path = "/toggle"
    THEN (IF result THEN "Toggled" ELSE "Failed to toggle")
    ELSE IF path = "/next"
    THEN (IF result THEN "Next track" ELSE "Failed to skip")
    ELSE (IF result THEN "Previous track" ELSE "Failed to go back")

\* `self.controller.x() if self.controller else False`; a result that is
\* not True or False (None) is falsy in the choice of the message
do_POST(path, c, p, api, api2) ==
    IF path \notin PostPaths
    THEN Json(path, [success |-> Bool(FALSE),
                     message |-> Str("Unknown command")])
    ELSE LET result ==
               IF c = "absent" THEN Bool(FALSE)
               ELSE IF path = "/play" THEN Bool(play(c, api))
               ELSE IF path = "/pause" THEN Bool(pause(c, api))
               ELSE IF path = "/toggle" THEN toggle_playback(c, p, api, api2)
               ELSE IF path = "/next" THEN Bool(next_track(c, api))
               ELSE Bool(previous_track(c, api))
         IN  Json(path, [success |-> result,
                         message |-> Str(message(path, result = Bool(TRUE)))])

\* the handler asking the settings store on its way
handle_status_reads_config(c, p, api) ==
    [response |-> Json("/status", [configured |-> Bool(FALSE),
                                   playing |-> Bool(FALSE)]).response,
     calls |-> {"get"}]

handle_status(c, p, api) ==
    IF c = "absent" \/ ~is_configured(c)
    THEN Json("/status", [configured |-> Bool(FALSE),
                          playing |-> Bool(FALSE)])
    ELSE Json("/status", [configured |-> Bool(TRUE),
                          playing |-> is_playing(c, p, api)])

handle_current_track(c, p, api) ==
    IF c = "absent" \/ ~is_configured(c)
    THEN Json("/current", [error |-> Str("Not configured")])
    ELSE IF get_current_track_info(c, p, api) = EmptyDict
    THEN Json("/current", [error |-> Str("No track playing")])
    ELSE Json("/current", get_current_track_info(c, p, api))

handle_oauth_callback ==
    [response |-> [status |-> 200, type |-> "text/html",
                   path |-> "/callback", body |-> EmptyDict],
     calls |-> {}]

do_GET(path, c, p, api) ==
    IF path = "/callback" THEN handle_oauth_callback
    ELSE IF path = "/status" THEN handle_status(c, p, api)
    ELSE IF path = "/current" THEN handle_current_track(c, p, api)
    ELSE [response |-> [status |-> 404, type |-> "none", path |-> path,
                        body |-> EmptyDict],
          calls |-> {}]

\* -------------------------------------------------------- SpotifyHTTPServer
\* the steps of the server leave the store and the widget alone and show
\* no message box
ServerQuiet(name) ==
    /\ op' = name
    /\ raised' = FALSE
    /\ loaded' = NoLoad
    /\ save_result' = "none"
    /\ notice' = "none"
    /\ UNCHANGED <<store_vars, dialog, opened_with, widget_vars, project, calls,
                   spotify>>

\* the steps that start no thread and end none
ServerStep(name) ==
    /\ ServerQuiet(name)
    /\ UNCHANGED server_thread

\* how often one Anki session starts the server in the model
MaxStarts == 2

\* start() with its first check left out
already_running_unchecked(r) == FALSE

\* `if self.running: return`
already_running(r) == r

\* SpotifyHTTPServer(c).start(): nothing when already running; else the
\* handler class gets the controller even when HTTPServer(...) cannot bind,
\* and on a bind the server thread is started
StartServer(c, bind) ==
    /\ ServerQuiet("start")
    /\ UNCHANGED <<playback, response, store_calls>>
    /\ IF already_running(running)
       THEN /\ ret' = None
            /\ UNCHANGED <<running, controller, server_thread>>
       ELSE /\ controller' = c
            /\ IF bind = "ok"
               THEN /\ server_thread.started < MaxStarts
                    /\ running' = TRUE
                    /\ server_thread' =
                         [started |-> server_thread.started + 1,
                          alive   |-> server_thread.alive + 1]
                    /\ ret' = Bool(TRUE)
               ELSE /\ ret' = Bool(FALSE)
                    /\ UNCHANGED <<running, server_thread>>

\* SpotifyHTTPServer.stop(): nothing when not running; shutdown() ends
\* serve_forever and with it the thread; when shutdown() raises, running
\* stays True
StopServer(api) ==
    /\ ServerQuiet("stop")
    /\ ret' = None
    /\ UNCHANGED <<controller, playback, response, store_calls>>
    /\ IF ~running
       THEN UNCHANGED <<running, server_thread>>
       ELSE IF api = "ok"
       THEN /\ running' = FALSE
            /\ server_thread' = [server_thread EXCEPT !.alive = @ - 1]
       ELSE UNCHANGED <<running, server_thread>>

\* controller.save_config(...) from the GUI: _initialize_spotify sets
\* self.sp, or None when SpotifyOAuth raises
SaveConfig(init) ==
    /\ controller # "absent"
    /\ controller' = IF init = "ok" THEN "configured" ELSE "unconfigured"
    /\ ret' = Bool(TRUE)
    /\ ServerStep("save_config")
    /\ UNCHANGED <<running, playback, response, store_calls>>

\* Spotify itself: playback starts, stops or changes on some device
PlaybackChanges(p) ==
    /\ playback # p
    /\ playback' = p
    /\ ret' = None
    /\ ServerStep("spotify")
    /\ UNCHANGED <<running, controller, response, store_calls>>

\* one request on the server thread
HttpGet(path, api) ==
    LET r == do_GET(path, controller, playback, api)
    IN  /\ running
        /\ response' = r.response
        /\ store_calls' = r.calls
        /\ ret' = None
        /\ ServerStep("GET")
        /\ UNCHANGED <<running, controller, playback>>

HttpPost(path, api, api2) ==
    LET r == do_POST(path, controller, playback, api, api2)
    IN  /\ running
        /\ response' = r.response
        /\ store_calls' = r.calls
        /\ playback' = after_command(path, controller, playback, api, api2)
        /\ ret' = None
        /\ ServerStep("POST")
        /\ UNCHANGED <<running, controller>>

\* the requests sent: the paths of the server and one it does not know
GetRequests  == GetPaths \cup {"/"}
PostRequests == PostPaths \cup {"/volume"}

HttpInit ==
    /\ StoreInit({"spotify"}, {Absent})
    /\ dialog = "closed"
    /\ opened_with = NoSession
    /\ ServerInit
    /\ WidgetInit
    /\ project = NoProject

\* the server thread beside the GUI thread, which sets and saves settings
HttpNext ==
    \/ \E c \in Controllers, bind \in Api : StartServer(c, bind)
    \/ \E api \in Api : StopServer(api)
    \/ \E init \in Api : SaveConfig(init)
    \/ \E p \in Playbacks : PlaybackChanges(p)
    \/ \E path \in GetRequests, api \in Api : HttpGet(path, api)
    \/ \E path \in PostRequests, api \in Api, api2 \in Api :
         HttpPost(path, api, api2)
    \/ \E c \in SetCalls : Set(c[1], c[2])
    \/ \E io \in SaveOutcomes : Save(io)

HttpSpec == HttpInit /\ [][HttpNext]_vars

\* ------------------------------------------ SpotifyController: credentials
\* what the user types into ConfigDialog
ClientIds == {"", "id1", "id2"}
Secrets   == {"", "s1"}
Uris      == {"http://localhost:8888/callback", "http://localhost:9999/cb"}

\* spotify_config.json as an Anki start can find it
ConfigFiles ==
    { NoFile,
      [kind |-> "corrupt", obj |-> DefaultConfig],
      [kind |-> "object",
       obj  |-> Credentials("id1", "s1", "http://localhost:8888/callback")] }

\* _load_config: the file's content, or the default config when there is
\* no file or open / json.load raises
load_config(f, readable) ==
    IF f.kind = "object" /\ readable THEN f.obj ELSE DefaultConfig

\* _initialize_spotify on the controller k: nothing without spotipy, the
\* client built from self.config, or None when SpotifyOAuth raises
initialize_spotify(k, init) ==
    IF ~k.spotipy THEN k.sp
    ELSE IF init = "ok" THEN [held |-> TRUE, from |-> k.config]
    ELSE NoClient

\* SpotifyController.__init__
SpotifyController(spotipy, f, readable, init) ==
    LET cfg == load_config(f, readable)
        k   == [spotipy |-> spotipy, config |-> cfg, config_file |-> f,
                sp |-> NoClient]
    IN  IF spotipy /\ cfg.client_id # "" /\ cfg.client_secret # ""
        THEN [k EXCEPT !.sp = initialize_spotify(k, init)]
        ELSE k

\* SpotifyController.save_config: self.config is assigned before the try;
\* open(..., 'w') can raise (file untouched) and json.dump can raise after
\* the file was truncated
save_config(k, client_id, client_secret, redirect_uri, write, init) ==
    LET k1 == [k EXCEPT !.config =
                 Credentials(client_id, client_secret, redirect_uri)]
        k2 == [k1 EXCEPT !.config_file =
                 [kind |-> "object", obj |-> k1.config]]
    IN  IF write = "ok"
        THEN [ret |-> TRUE, k |-> [k2 EXCEPT !.sp = initialize_spotify(k2, init)]]
        ELSE IF write = "open_fails"
        THEN [ret |-> FALSE, k |-> k1]
        ELSE [ret |-> FALSE,
              k   |-> [k1 EXCEPT !.config_file =
                         [kind |-> "corrupt", obj |-> DefaultConfig]]]

\* what the handler class sees of the controller
controller_of(k) == IF k.sp.held THEN "configured" ELSE "unconfigured"

ControllerStep(name) ==
    /\ op' = name
    /\ raised' = FALSE
    /\ loaded' = NoLoad
    /\ save_result' = "none"
    /\ notice' = "none"
    /\ controller' = controller_of(spotify')
    /\ UNCHANGED <<store_vars, dialog, opened_with, widget_vars, project>>
    /\ UNCHANGED <<running, playback, response, store_calls, calls,
                   server_thread>>

\* Anki starts again: initialize_addon constructs the controller anew
NewController(readable, init) ==
    /\ spotify' = SpotifyController(spotify.spotipy, spotify.config_file,
                                    readable, init)
    /\ ret' = None
    /\ ControllerStep("new_controller")

\* ConfigDialog.save_config: the OK button of the credentials dialog
ConfigDialogSave(client_id, client_secret, redirect_uri, write, init) ==
    LET r == save_config(spotify, client_id, client_secret, redirect_uri,
                         write, init)
    IN  /\ spotify' = r.k
        /\ ret' = Bool(r.ret)
        /\ ControllerStep("save_config")

ControllerInit ==
    /\ StoreInit({"spotify"}, {Absent})
    /\ dialog = "closed"
    /\ opened_with = NoSession
    /\ running = FALSE
    /\ playback = "none"
    /\ response = NoResponse
    /\ store_calls = {}
    /\ calls = <<>>
    /\ server_thread = [started |-> 0, alive |-> 0]
    /\ \E spotipy \in BOOLEAN, f \in ConfigFiles, readable \in BOOLEAN,
          init \in Api :
         spotify = SpotifyController(spotipy, f, readable, init)
    /\ controller = controller_of(spotify)
    /\ WidgetInit
    /\ project = NoProject

ControllerNext ==
    \/ \E readable \in BOOLEAN, init \in Api : NewController(readable, init)
    \/ \E id \in ClientIds, secret \in Secrets, uri \in Uris,
          write \in SaveOutcomes, init \in Api :
         ConfigDialogSave(id, secret, uri, write, init)

ControllerSpec == ControllerInit /\ [][ControllerNext]_vars

\* ------------------------------------------- toggle_playback on two threads
\* the callers of SpotifyController.toggle_playback: 0 is the GUI thread
\* (SpotifyWidget.toggle_playback), 1..MaxRequests are POST /toggle requests.
\* calls[t].pc: "idle", "waiting" (a request sent, not yet accepted),
\* "called" (inside toggle_playback, before is_playing()), "decided"
\* (is_playing() returned, pause() or play() not yet called).
\* seen: what is_playing() returned; sent: the command then given;
\* raced: another caller gave a command between the two.
MaxRequests == 2

Gui      == 0
Requests == 1..MaxRequests
Callers  == {Gui} \cup Requests

NoCall == [pc |-> "idle", seen |-> None, sent |-> "none", raced |-> FALSE]

InToggle(t) == calls[t].pc \in {"called", "decided"}

\* a server with one thread per request
can_accept_threading(cs) == TRUE

\* HTTPServer.serve_forever handles a request to its end before it accepts
\* the next
can_accept(cs) == \A r \in Requests : cs[r].pc \notin {"called", "decided"}

\* `if self.is_playing(): return self.pause() else: return self.play()`
toggle_branch(seen) == IF seen = Bool(TRUE) THEN "pause" ELSE "play"

\* the playback after pause() or play() that the API accepted
after_toggle(command, c, p, api) ==
    IF c = "configured" /\ api = "ok" /\ p \in {"playing", "paused"}
    THEN (IF command = "pause" THEN "paused" ELSE "playing")
    ELSE p

RaceStep(name) ==
    /\ op' = name
    /\ ret' = None
    /\ raised' = FALSE
    /\ loaded' = NoLoad
    /\ save_result' = "none"
    /\ notice' = "none"
    /\ UNCHANGED <<store_vars, dialog, opened_with, widget_vars, project>>
    /\ UNCHANGED <<running, controller, response, store_calls>>
    /\ UNCHANGED <<server_thread, spotify>>

\* a client sends POST /toggle
RequestArrives(r) ==
    /\ running
    /\ calls[r].pc = "idle"
    /\ calls' = [calls EXCEPT ![r] = [NoCall EXCEPT !.pc = "waiting"]]
    /\ RaceStep("arrive")
    /\ UNCHANGED playback

\* the server thread accepts it: do_POST calls controller.toggle_playback()
RequestAccepted(r) ==
    /\ calls[r].pc = "waiting"
    /\ can_accept(calls)
    /\ calls' = [calls EXCEPT ![r].pc = "called"]
    /\ RaceStep("accept")
    /\ UNCHANGED playback

\* the play/pause button of SpotifyWidget: self.controller.toggle_playback()
GuiToggle ==
    /\ calls[Gui].pc = "idle"
    /\ is_configured(controller)
    /\ calls' = [calls EXCEPT ![Gui] = [NoCall EXCEPT !.pc = "called"]]
    /\ RaceStep("gui_toggle")
    /\ UNCHANGED playback

\* toggle_playback, first half: self.is_playing()
ToggleRead(t, api) ==
    /\ calls[t].pc = "called"
    /\ calls' = [calls EXCEPT ![t].pc = "decided",
                              ![t].seen = is_playing(controller, playback,
                                                     api),
                              ![t].raced = FALSE]
    /\ RaceStep("toggle_read")
    /\ UNCHANGED playback

\* toggle_playback, second half: self.pause() or self.play()
ToggleCommand(t, api) ==
    /\ calls[t].pc = "decided"
    /\ calls' = [u \in Callers |->
                   IF u = t
                   THEN [calls[t] EXCEPT !.pc = "idle",
                                         !.sent = toggle_branch(calls[t].seen)]
                   ELSE IF calls[u].pc = "decided"
                   THEN [calls[u] EXCEPT !.raced = TRUE]
                   ELSE calls[u]]
    /\ playback' = after_toggle(toggle_branch(calls[t].seen), controller,
                                playback, api)
    /\ RaceStep("toggle_command")

\* the server is running with a configured controller, music is playing
RaceInit ==
    /\ StoreInit({"spotify"}, {Absent})
    /\ dialog = "closed"
    /\ opened_with = NoSession
    /\ running = TRUE
    /\ controller = "configured"
    /\ playback = "playing"
    /\ response = NoResponse
    /\ store_calls = {}
    /\ calls = [t \in Callers |-> NoCall]
    /\ server_thread = [started |-> 1, alive |-> 1]
    /\ spotify = NoController
    /\ WidgetInit
    /\ project = NoProject

RaceNext ==
    \/ \E r \in Requests : RequestArrives(r)
    \/ \E r \in Requests : RequestAccepted(r)
    \/ GuiToggle
    \/ \E t \in Callers, api \in Api : ToggleRead(t, api)
    \/ \E t \in Callers, api \in Api : ToggleCommand(t, api)

RaceSpec == RaceInit /\ [][RaceNext]_vars

\* --------------------------------------------------- the widget's lifecycle
\* the MusicWidget objects are numbered 1..MaxWidgets; music_widget = 0 is
\* None.  W is the record [music_widget, live, visible].
MaxWidgets == 2

\* the queue of the page has the places 0..MaxTrack
MaxTrack == 2

\* mw.state once Anki has started
MwStates == {"deckBrowser", "overview", "review"}

Widgets(mw, lv, vs) == [music_widget |-> mw, live |-> lv, visible |-> vs]

\* MusicWidget(controller=controller): an object not in use yet
NewWidget(lv) == CHOOSE w \in 1..MaxWidgets : w \notin lv

\* a new widget made at every call
show_music_widget_unguarded(W) ==
    LET w == NewWidget(W.live)
    IN  Widgets(w, W.live \cup {w}, W.visible \cup {w})

\* show_music_widget(): nothing when music_widget is set
show_music_widget(W) ==
    IF W.music_widget = 0
    THEN LET w == NewWidget(W.live)
         IN  Widgets(w, W.live \cup {w}, W.visible \cup {w})
    ELSE W

\* hide_music_widget(): close(), setParent(None), music_widget = None; the
\* object has no owner left and is destroyed
hide_music_widget(W) ==
    IF W.music_widget # 0
    THEN Widgets(0, W.live \ {W.music_widget}, W.visible \ {W.music_widget})
    ELSE W

\* a visible widget hidden by hide_music_widget()
toggle_music_widget_destroys(W) ==
    IF W.music_widget # 0
    THEN IF W.music_widget \in W.visible
         THEN hide_music_widget(W)
         ELSE Widgets(W.music_widget, W.live,
                      W.visible \cup {W.music_widget})
    ELSE show_music_widget(W)

toggle_music_widget(W) ==
    IF W.music_widget # 0
    THEN IF W.music_widget \in W.visible
         THEN Widgets(W.music_widget, W.live,
                      W.visible \ {W.music_widget})
         ELSE Widgets(W.music_widget, W.live,
                      W.visible \cup {W.music_widget})
    ELSE show_music_widget(W)

\* play_pause_from_global, next_track_from_global and
\* previous_track_from_global: the widget is made when there is none
\* the widget also shown when it exists
from_global_shows(W) ==
    IF W.music_widget = 0 THEN show_music_widget(W)
    ELSE Widgets(W.music_widget, W.live, W.visible \cup {W.music_widget})

from_global(W) == IF W.music_widget = 0 THEN show_music_widget(W) ELSE W

\* `if music_widget: music_widget.<command>()` after that: the commands
\* given, each with the widget it is given to
global_command(W, command) ==
    IF from_global(W).music_widget # 0
    THEN <<[to |-> from_global(W).music_widget, command |-> command]>>
    ELSE <<>>

\* cleanup_widget(state, old_state): hide() when the new state is not
\* 'review'
cleanup_widget(W, state) ==
    IF state # "review" /\ W.music_widget # 0
    THEN Widgets(W.music_widget, W.live, W.visible \ {W.music_widget})
    ELSE W

Now == Widgets(music_widget, live, visible)

\* a step of the widget's callbacks: W is the widgets after it
WidgetStep(name, W, commands) ==
    /\ Cardinality(W.live) <= MaxWidgets
    /\ issued' = commands
    /\ music_widget' = W.music_widget
    /\ live' = W.live
    /\ visible' = W.visible
    /\ op' = name
    /\ ret' = None
    /\ raised' = FALSE
    /\ loaded' = NoLoad
    /\ save_result' = "none"
    /\ notice' = "none"
    /\ UNCHANGED <<store_vars, dialog, opened_with, server_vars, project>>

\* whether a new widget can still be numbered
Room == Cardinality(live) < MaxWidgets

ShowMusicWidget ==
    /\ Room
    /\ WidgetStep("show", show_music_widget(Now), <<>>)
    /\ UNCHANGED <<mw_state, playing, track>>

\* the page of a destroyed widget plays no more
HideMusicWidget ==
    /\ WidgetStep("hide", hide_music_widget(Now), <<>>)
    /\ playing' = IF music_widget # 0 THEN FALSE ELSE playing
    /\ track' = IF music_widget # 0 THEN 0 ELSE track
    /\ UNCHANGED mw_state

ToggleMusicWidget ==
    /\ Room
    /\ WidgetStep("toggle", toggle_music_widget(Now), <<>>)
    /\ UNCHANGED <<mw_state, playing, track>>

\* found: the injected JavaScript finds the play/pause button of the page
PlayPauseFromGlobal(found) ==
    /\ Room
    /\ WidgetStep("play_pause", from_global(Now),
                  global_command(Now, "toggle_playback"))
    /\ playing' = IF found THEN ~playing ELSE playing
    /\ UNCHANGED <<mw_state, track>>

\* the injected JavaScript clicks the page's next / previous button
NextTrackFromGlobal ==
    /\ Room
    /\ WidgetStep("next", from_global(Now),
                  global_command(Now, "next_track"))
    /\ track' = IF track < MaxTrack THEN track + 1 ELSE track
    /\ UNCHANGED <<mw_state, playing>>

PreviousTrackFromGlobal ==
    /\ Room
    /\ WidgetStep("previous", from_global(Now),
                  global_command(Now, "previous_track"))
    /\ track' = IF track > 0 THEN track - 1 ELSE track
    /\ UNCHANGED <<mw_state, playing>>

\* Anki changes state and runs the state_did_change hook
StateDidChange(state) ==
    /\ state # mw_state
    /\ mw_state' = state
    /\ WidgetStep("state_did_change", cleanup_widget(Now, state), <<>>)
    /\ UNCHANGED <<playing, track>>

\* on_reviewer_show(card): the widget is moved, nothing else
OnReviewerShow ==
    /\ mw_state = "review"
    /\ WidgetStep("reviewer_show", Now, <<>>)
    /\ UNCHANGED <<mw_state, playing, track>>

\* the close button of the widget's header
CloseButton ==
    /\ music_widget \in visible
    /\ WidgetStep("close_button",
                  Widgets(music_widget, live, visible \ {music_widget}),
                  <<>>)
    /\ UNCHANGED <<mw_state, playing, track>>

WidgetSpecInit ==
    /\ StoreInit({"spotify_gui"}, {Absent})
    /\ dialog = "closed"
    /\ opened_with = NoSession
    /\ ServerInit
    /\ WidgetInit
    /\ project = NoProject

WidgetNext ==
    \/ ShowMusicWidget
    \/ HideMusicWidget
    \/ ToggleMusicWidget
    \/ \E found \in BOOLEAN : PlayPauseFromGlobal(found)
    \/ NextTrackFromGlobal
    \/ PreviousTrackFromGlobal
    \/ \E state \in MwStates : StateDidChange(state)
    \/ OnReviewerShow
    \/ CloseButton

WidgetSpec == WidgetSpecInit /\ [][WidgetNext]_vars

\* ------------------------------------------------------------- build.py
\* Names are sequences of characters, paths sequences of names.
InitPy  == <<"_", "_", "i", "n", "i", "t", "_", "_", ".", "p", "y">>
PycExt  == <<".", "p", "y", "c">>

\* the files a module directory can hold in the model, as paths below it,
\* in the order os.walk lists them
Universe ==
    << <<InitPy>>,
       << <<".", "e">> >>,
       << <<"g">>, <<"a", ".", "p", "y">> >>,
       << <<"c">>, <<"a", ".", "p", "y", "c">> >>,
       << <<".", "d">>, <<"k">> >> >>

UniverseSet == {Universe[i] : i \in DOMAIN Universe}

\* self.src_dir and self.src_dir / self.module_name
src_dir    == << <<"r">>, <<"s", "r", "c">> >>
module_dir == src_dir \o << <<"m">> >>

\* str.endswith for strings kept as sequences of characters
endswith(str, suffix) ==
    /\ Len(str) >= Len(suffix)
    /\ SubSeq(str, Len(str) - Len(suffix) + 1, Len(str)) = suffix

\* AnkiAddonBuilder.validate: the exception it raises, or "none"
validate(p) ==
    IF ~p.src_dir THEN "FileNotFoundError"
    ELSE IF ~p.module_dir THEN "FileNotFoundError"
    ELSE IF <<InitPy>> \notin p.files THEN "FileNotFoundError"
    ELSE "none"

\* os.walk(module_dir): Path(root) / file for every file below it
walk(p) ==
    LET found == SelectSeq(Universe, LAMBDA f : f \in p.files)
    IN  [i \in DOMAIN found |-> module_dir \o found[i]]

\* `if file.startswith('.') or file.endswith('.pyc'): continue`
skipped(name) == startswith(name, <<".">>) \/ endswith(name, PycExt)

\* the path taken relative to the directory above base
relative_to_parent(path, base) == SubSeq(path, Len(base), Len(path))

\* Path.relative_to(base)
relative_to(path, base) == SubSeq(path, Len(base) + 1, Len(path))

\* the arcnames zipf.write is called with, in order
arcnames(p) ==
    LET kept == SelectSeq(walk(p), LAMBDA fp : ~skipped(fp[Len(fp)]))
    IN  [i \in DOMAIN kept |-> relative_to(kept[i], module_dir)]

\* build_simple: validate() first; then the build directory, the removal of
\* the package of that version, the new package.  io = "write_fails": a
\* zipf.write raises after k entries.
build_simple(p, io, k) ==
    IF validate(p) # "none"
    THEN [exc |-> validate(p), project |-> p]
    ELSE LET all == arcnames(p)
             n   == IF k < Len(all) THEN k ELSE Len(all)
         IN  [exc     |-> IF io = "ok" THEN "none" ELSE "OSError",
              project |->
                [p EXCEPT
                   !.build_dir = TRUE,
                   !.package =
                     [exists  |-> TRUE,
                      entries |-> IF io = "ok" THEN all
                                  ELSE SubSeq(all, 1, n)]]]

\* AnkiAddonBuilder.clean: shutil.rmtree(self.build_dir)
clean(p) ==
    [p EXCEPT !.build_dir = FALSE,
              !.package = [exists |-> FALSE, entries |-> <<>>]]

BuildStep(name) ==
    /\ op' = name
    /\ ret' = None
    /\ loaded' = NoLoad
    /\ save_result' = "none"
    /\ notice' = "none"
    /\ UNCHANGED <<store_vars, dialog, opened_with, server_vars, widget_vars>>

\* the developer adds or deletes a file of the module, or the directories
EditFile(f) ==
    /\ project.module_dir
    /\ project' = [project EXCEPT !.files =
                     IF f \in @ THEN @ \ {f} ELSE @ \cup {f}]
    /\ raised' = FALSE
    /\ BuildStep("edit")

MakeDirs ==
    /\ ~project.module_dir
    /\ project' = IF project.src_dir
                  THEN [project EXCEPT !.module_dir = TRUE]
                  ELSE [project EXCEPT !.src_dir = TRUE]
    /\ raised' = FALSE
    /\ BuildStep("mkdir")

RemoveSrc ==
    /\ project.src_dir
    /\ project' = [project EXCEPT !.src_dir = FALSE, !.module_dir = FALSE,
                                  !.files = {}]
    /\ raised' = FALSE
    /\ BuildStep("rm_src")

\* python build.py --clean runs clean() before the build
Clean ==
    /\ project' = clean(project)
    /\ raised' = FALSE
    /\ BuildStep("clean")

\* python build.py
BuildSimple(io, k) ==
    LET r == build_simple(project, io, k)
    IN  /\ project' = r.project
        /\ raised' = (r.exc # "none")
        /\ BuildStep("build_simple")

BuildInit ==
    /\ StoreInit({"music"}, {Absent})
    /\ dialog = "closed"
    /\ opened_with = NoSession
    /\ ServerInit
    /\ WidgetInit
    /\ project = NoProject

BuildNext ==
    \/ \E f \in UniverseSet : EditFile(f)
    \/ MakeDirs
    \/ RemoveSrc
    \/ Clean
    \/ \E io \in {"ok", "write_fails"}, k \in 0..Len(Universe) :
         BuildSimple(io, k)

BuildSpec == BuildInit /\ [][BuildNext]_vars

\* ================================================================ claims
\* what a new load() of the file returns, by value
fresh_load(D, f, h) ==
    LET r == load(D, f, TRUE, "l")
    IN  View(r.dict, [h EXCEPT !["l"] = r.list])

\* the file after load() and then save() of what was loaded
load_then_save(D, f, h) ==
    LET r == load(D, f, TRUE, "l")
    IN  save(r.dict, [h EXCEPT !["l"] = r.list], f, "ok").file

DefaultKeys == DOMAIN DefaultsOf(variant)

\* C1: the in-memory record always has every key of the Defaults Table;
\* a load of a JSON object that lacks default keys fills them in and keeps
\* the keys only the file has.
C1_DefaultKeysAlwaysPresent ==
    /\ [](DefaultKeys \subseteq DOMAIN settings)
    /\ [][(Load(TRUE) /\ file.kind = "object")
            => (DefaultKeys \cup DOMAIN file.obj) \subseteq DOMAIN loaded'.dict]_vars
    /\ [][(Config_init(TRUE) /\ file.kind = "object")
            => (DefaultKeys \cup DOMAIN file.obj) \subseteq DOMAIN settings']_vars

C1_Witness ==
    /\ op = "load" /\ loaded.some
    /\ file.kind = "object"
    /\ "shortcut_next" \notin DOMAIN file.obj
    /\ "legacy_key" \in DOMAIN file.obj
    /\ {"shortcut_next", "legacy_key"} \subseteq DOMAIN loaded.dict

\* the overlay of a JSON object F onto a table D, key by key
IsOverlay(R, D, F) ==
    /\ DOMAIN R = DOMAIN D \cup DOMAIN F
    /\ \A k \in DOMAIN R : R[k] = IF k \in DOMAIN F THEN F[k] ELSE D[k]

C3_DefaultsNeverMutated ==
    View(DEFAULTS, heap) = DefaultsTable(variant)

\* C4: after reset_to_defaults, get(key) is the default value for every
\* key of the Defaults Table, and when the reset's save succeeded a new
\* load returns those defaults.
C4_ResetRestoresDefaults ==
    op = "reset" =>
      /\ \A k \in DefaultKeys :
           Deref(get(settings, k, None), heap) = DefaultsTable(variant)[k]
      /\ save_result = "ok"
           => fresh_load(DEFAULTS, file, heap) = DefaultsTable(variant)

\* C5: a file the store wrote holds a JSON object, also after a save that
\* failed part-way.
C5_StoredFileIsJsonObject ==
    file.by = "store" => file.kind = "object"

C9_SetIsNotDurableUntilSave ==
    /\ [][op' = "set"
            => /\ file' = file
               /\ fresh_load(DEFAULTS', file', heap')
                    = fresh_load(DEFAULTS, file, heap)]_vars
    /\ [][(op' = "save" /\ ret' = Bool(FALSE))
            => fresh_load(DEFAULTS', file', heap')
                 \in {fresh_load(DEFAULTS, file, heap), View(DEFAULTS, heap)}]_vars
    /\ [][(op' = "save" /\ ret' = Bool(TRUE))
            => fresh_load(DEFAULTS', file', heap') = View(settings', heap')]_vars

C9_Witness ==
    /\ op = "save" /\ ret = Bool(TRUE)
    /\ settings["default_service"] = Str("youtube")
    /\ file.kind = "object"
    /\ file.obj["default_service"] = Str("youtube")
    /\ DEFAULTS["default_service"] # Str("youtube")

\* C10: get returns the value of a present key and the fallback (None when
\* none is given) of an absent one and changes nothing; after set(key,
\* value), get(key) is value, and setting the same again changes nothing.
C10_GetAndSet ==
    /\ [][\A key \in GetKeys, default \in GetDefaults :
            Get(key, default)
              => /\ ret' = IF key \in DOMAIN settings THEN settings[key]
                           ELSE default
                 /\ settings' = settings
                 /\ View(settings', heap') = View(settings, heap)]_vars
    /\ [][\A c \in SetCalls :
            Set(c[1], c[2])
              => /\ get(settings', c[1], None) = c[2]
                 /\ get(settings', c[1], Str("Space")) = c[2]
                 /\ \A k \in DOMAIN settings \ {c[1]} : settings'[k] = settings[k]
                 /\ DOMAIN settings' = DOMAIN settings \cup {c[1]}
                 /\ set(settings', c[1], c[2]) = settings']_vars

C10_Witness ==
    /\ op = "get" /\ ret = Str("Space")
    /\ "legacy_key" \notin DOMAIN settings
    /\ settings["default_service"] = Str("youtube")

\* C11: save returns True only when the file then holds the whole
\* in-memory record, and returns False whenever opening or writing the
\* file fails.
C11_SaveReportsTheWrite ==
    [][\A io \in SaveOutcomes :
         Save(io)
           => /\ io # "ok" => ret' = Bool(FALSE)
              /\ ret' = Bool(TRUE)
                   => /\ file'.kind = "object"
                      /\ file'.obj = View(settings, heap)
                      /\ \A k \in DOMAIN settings :
                           file'.obj[k] = Deref(settings[k], heap)]_vars

C11_Witness ==
    /\ op = "save" /\ ret = Bool(FALSE)
    /\ file.kind = "object" /\ file.by = "user"
    /\ settings["default_service"] = Str("youtube")
    /\ "default_service" \notin DOMAIN file.obj


\* C12: at every save action of the settings dialogs (OK, add URL, remove
\* URL, reset) a failed Save shows the failure notice and no success notice,
\* and the failure notice is shown only when a Save failed.
C12_SaveFailureIsReported ==
    /\ save_result = "fail" => notice = "critical"
    /\ notice = "critical" => save_result = "fail"

\* C13: an OK click with an empty shortcut or with two equal shortcuts is
\* answered by a warning before the store is reached: nothing is set or
\* saved, record and file are as before, the dialog stays open.
C13_InvalidShortcutsAreRejected ==
    [][\A i \in OkInputs :
         ( /\ OkClick(i[1], i[2], i[3])
           /\ \/ \E k \in DOMAIN i[1] : i[1][k] = ""
              \/ \E k, m \in DOMAIN i[1] : k # m /\ i[1][k] = i[1][m] )
           => /\ notice' = "warning"
              /\ save_result' = "none"
              /\ settings' = settings
              /\ View(settings', heap') = View(settings, heap)
              /\ file' = file
              /\ dialog' = "open"]_vars

C13_Witness ==
    /\ op = "ok_click" /\ notice = "warning" /\ dialog = "open"
    /\ save_result = "none"
    /\ variant = "spotify_gui"
    /\ file.kind = "object" /\ file.by = "store"

\* the value of custom_urls in a record, None when the key is missing
custom_urls_of(d, h) ==
    IF "custom_urls" \in DOMAIN d THEN Deref(d["custom_urls"], h) ELSE None

C16_ResetOnlyAfterYes ==
    [][/\ \A i \in ResetInputs :
            (ResetClick(i[1], i[2]) /\ i[1] # "Yes")
              => /\ save_result' = "none"
                 /\ settings' = settings
                 /\ View(settings', heap') = View(settings, heap)
                 /\ file' = file
       /\ (op' = "reset_click" /\ save_result' # "none")
            => \E i \in ResetInputs : i[1] = "Yes" /\ ResetClick(i[1], i[2])
      ]_vars

C16_Witness ==
    /\ op = "reset_click" /\ save_result = "none" /\ notice = "none"
    /\ dialog = "open"
    /\ View(settings, heap) # DefaultsTable(variant)
    /\ settings["default_service"] = Str("youtube")


\* C17: the settings store is read and written on the GUI thread only: no
\* request handled on the server thread (GET /status, /current, /callback,
\* POST /play, /pause, /toggle, /next, /previous) calls the store or changes
\* the settings record or the file.
C17_ServerThreadLeavesStoreAlone ==
    [][op' \in {"GET", "POST"}
         => /\ store_calls' = {}
            /\ settings' = settings
            /\ DEFAULTS' = DEFAULTS
            /\ heap' = heap
            /\ file' = file]_vars

C17_Witness ==
    /\ op = "POST" /\ response.path = "/toggle"
    /\ response.body["success"] = Bool(TRUE)
    /\ settings["default_service"] = Str("youtube")
    /\ file = Absent

\* the two forms of a response body
success_form(b) ==
    /\ DOMAIN b = {"success", "message"}
    /\ b["success"].t = "bool"
    /\ b["message"].t = "str"

configured_form(b) ==
    /\ "configured" \in DOMAIN b
    /\ b["configured"].t = "bool"

\* C18: in every controller state each response of GET /status, GET
\* /current and POST /play, /pause, /toggle, /next, /previous is a JSON
\* object {success: bool, message: string} or {configured: bool, ...}.
C18_ResponsesHaveOneOfTwoForms ==
    response.path \in {"/status", "/current"} \cup PostPaths
      => /\ response.type = "application/json"
         /\ success_form(response.body) \/ configured_form(response.body)

\* C18 as amended: the responses of GET /status and of the POST commands
\* have these forms; the response of GET /current is a JSON object that is
\* {error: string} or the track record.
C18_StatusAndCommandResponses ==
    /\ response.path \in {"/status"} \cup PostPaths
         => /\ response.type = "application/json"
            /\ success_form(response.body) \/ configured_form(response.body)
    /\ response.path = "/current"
         => /\ response.type = "application/json"
            /\ \/ /\ DOMAIN response.body = {"error"}
                  /\ response.body["error"].t = "str"
               \/ /\ DOMAIN response.body =
                       {"name", "artist", "album", "is_playing",
                        "progress_ms", "duration_ms"}
                  /\ response.body["is_playing"].t = "bool"

C18_Witness ==
    /\ op = "GET" /\ response.path = "/current"
    /\ controller = "configured" /\ playback = "paused"
    /\ response.body["is_playing"] = Bool(FALSE)

\* C19: show_music_widget is idempotent: after any sequence of show, hide,
\* toggle and the global play/pause, next and previous callbacks at most
\* one widget exists, music_widget refers to it when it exists and is None
\* otherwise, and hide_music_widget without a widget changes nothing.
C19_AtMostOneWidget ==
    [][/\ Cardinality(live') <= 1
       /\ (live' # {}) => (music_widget' \in live')
       /\ (live' = {}) => (music_widget' = 0)
       /\ (op' = "hide" /\ music_widget = 0)
            => /\ music_widget' = 0
               /\ live' = live
               /\ visible' = visible
               /\ mw_state' = mw_state
               /\ playing' = playing
               /\ track' = track]_vars

C19_Witness ==
    /\ op = "show"
    /\ live = {music_widget}
    /\ music_widget \notin visible

\* C20: the widget appears during study only: whenever Anki's state is not
\* 'review', no widget is visible, however state changes, toggles and
\* global shortcuts interleave.
C20_VisibleOnlyInReview ==
    mw_state # "review" => visible = {}

\* C21: toggle_music_widget with no widget creates one and makes it
\* visible; with a hidden widget it makes that widget visible; with a
\* visible widget it hides it and keeps the instance.  Two toggles in a row
\* from a visible widget leave the same widget visible.
C21_ToggleThreeCases ==
    [][/\ (op' = "toggle" /\ music_widget = 0)
            => /\ music_widget' # 0
               /\ live' = {music_widget'}
               /\ visible' = {music_widget'}
       /\ (op' = "toggle" /\ music_widget # 0 /\ music_widget \notin visible)
            => /\ music_widget' = music_widget
               /\ live' = live
               /\ visible' = {music_widget}
       /\ (op' = "toggle" /\ music_widget \in visible)
            => /\ music_widget' = music_widget
               /\ live' = live
               /\ visible' = {}
       /\ music_widget \in visible
            => toggle_music_widget(toggle_music_widget(Now)) = Now
      ]_vars

C21_Witness ==
    /\ op = "toggle"
    /\ live = {music_widget}
    /\ visible = {}
    /\ playing

\* C22: each global playback callback (play/pause, next, previous) creates
\* the widget first when there is none and then gives exactly one playback
\* command to the widget; a hidden widget gets the command and stays hidden.
C22_GlobalCallbackOneCommand ==
    [][op' \in {"play_pause", "next", "previous"}
         => /\ music_widget' # 0
            /\ Len(issued') = 1
            /\ issued'[1].to = music_widget'
            /\ issued'[1].command =
                 (IF op' = "play_pause" THEN "toggle_playback"
                  ELSE IF op' = "next" THEN "next_track"
                  ELSE "previous_track")
            /\ music_widget = 0
                 => /\ music_widget' \notin live
                    /\ live' = {music_widget'}
                    /\ visible' = {music_widget'}
            /\ music_widget # 0
                 => /\ music_widget' = music_widget
                    /\ live' = live
                    /\ visible' = visible]_vars

C22_Witness ==
    /\ op = "next"
    /\ issued = <<[to |-> music_widget, command |-> "next_track"]>>
    /\ live = {music_widget}
    /\ visible = {}

\* C23: requests arriving over HTTP are handled one at a time, while a
\* toggle handled on the server thread and a toggle on the GUI thread can
\* interleave inside toggle_playback, between its read of the playing state
\* and its pause or play call, so that both give the same command.
C23_RequestsOneAtATime ==
    /\ Cardinality({r \in Requests : InToggle(r)}) <= 1
    /\ \A t \in Callers :
         calls[t].raced => calls[t].pc = "decided" \/ calls[t].sent # "none"

\* the interleaving: both read "playing", both paused
C23_Witness ==
    /\ calls[Gui] = [pc |-> "idle", seen |-> Bool(TRUE), sent |-> "pause",
                     raced |-> TRUE]
    /\ calls[1] = [pc |-> "idle", seen |-> Bool(TRUE), sent |-> "pause",
                   raced |-> FALSE]
    /\ calls[2] = NoCall
    /\ playback = "paused"

\* the entries of l without the one at row i (rows count from 0)
without(l, i) == [k \in 1..(Len(l) - 1) |-> IF k <= i THEN l[k] ELSE l[k + 1]]

\* C24: the remove-custom-URL action changes custom_urls only after a row
\* was selected and Yes answered: it then removes exactly the entry at that
\* row, keeps the others in order, and saves; with no selection or No,
\* custom_urls is unchanged in memory and on disk.  Beside it only the add
\* action and the reset change custom_urls; an OK click leaves it as it is.
C24_RemoveTakesTheSelectedRow ==
    [][/\ \A i \in RemoveInputs :
            (dialog = "open" /\ RemoveCustomUrl(i[1], i[2], i[3]))
              => LET before == custom_urls_of(settings, heap)
                     now    == custom_urls_of(settings', heap')
                 IN  IF i[1] >= 0 /\ i[2] = "Yes"
                     THEN /\ now = List(without(before.l, i[1]))
                          /\ save_result' # "none"
                     ELSE /\ now = before
                          /\ file' = file
                          /\ save_result' = "none"
       /\ custom_urls_of(settings', heap') # custom_urls_of(settings, heap)
            => op' \in {"add_url", "remove_url", "reset_click"}
       /\ op' = "ok_click"
            => custom_urls_of(settings', heap') = custom_urls_of(settings, heap)
      ]_vars

\* the first of two different entries was removed and the removal saved
C24_Witness ==
    /\ op = "remove_url" /\ save_result = "ok"
    /\ "legacy_key" \in DOMAIN settings
    /\ custom_urls_of(settings, heap) = List(<<Soundcloud>>)
    /\ fresh_load(DEFAULTS, file, heap)["custom_urls"] = List(<<Soundcloud>>)

C29_SaveConfigAllOrNothing ==
    [][\A id \in ClientIds, secret \in Secrets, uri \in Uris,
          write \in SaveOutcomes, init \in Api :
         ConfigDialogSave(id, secret, uri, write, init)
           => LET given == Credentials(id, secret, uri)
              IN  /\ ret' = Bool(TRUE)
                       => /\ spotify'.config_file
                               = [kind |-> "object", obj |-> given]
                          /\ spotify'.sp = [held |-> TRUE, from |-> given]
                  /\ write # "ok"
                       => /\ ret' = Bool(FALSE)
                          /\ spotify'.config = spotify.config
                          /\ spotify'.sp = spotify.sp]_vars

\* C30: build_simple validates the project structure before it creates
\* the build directory or removes an existing package; in the package it
\* writes every entry name is a path relative to the module directory (no
\* top-level folder), no entry is a file whose name starts with '.' or ends
\* with '.pyc', and every other file under the module directory appears
\* exactly once.
C30_PackageHoldsTheModuleFiles ==
    [][\A io \in {"ok", "write_fails"}, k \in 0..Len(Universe) :
         BuildSimple(io, k)
           => LET valid   == /\ project.src_dir
                             /\ project.module_dir
                             /\ <<InitPy>> \in project.files
                  entries == project'.package.entries
                  name(e) == e[Len(e)]
                  hidden(e) == Head(name(e)) = "."
                  pyc(e)  == /\ Len(name(e)) >= 4
                             /\ SubSeq(name(e), Len(name(e)) - 3,
                                       Len(name(e))) = <<".", "p", "y", "c">>
              IN  /\ ~valid => (raised' /\ project' = project)
                  /\ valid
                       => /\ project'.build_dir /\ project'.package.exists
                          /\ \A i \in DOMAIN entries :
                               /\ entries[i] \in project.files
                               /\ ~hidden(entries[i])
                               /\ ~pyc(entries[i])
                          /\ \A i, j \in DOMAIN entries :
                               i # j => entries[i] # entries[j]
                          /\ ~raised'
                               => \A f \in project.files :
                                    (~hidden(f) /\ ~pyc(f))
                                      => \E i \in DOMAIN entries :
                                           entries[i] = f]_vars

\* a package built from a module with a hidden file, a .pyc file, a file in
\* a hidden directory and a file in a plain directory
C30_Witness ==
    /\ op = "build_simple" /\ ~raised
    /\ project.files = UniverseSet
    /\ project.package.entries
         = << <<InitPy>>, << <<"g">>, <<"a", ".", "p", "y">> >>,
              << <<".", "d">>, <<"k">> >> >>
====
